---- MODULE Spec2Model ----
(***************************************************************************)
(* Model of internal/edgeos: the configuration parser Config.ReadCfg, the  *)
(* tree of nodes it builds, and the view factory Config.NewContent with    *)
(* the ip inheritance of tree.getIP / tree.validate.                       *)
(*                                                                         *)
(* The tree maps node names to node records; source objects live in a heap *)
(* (a sequence, an object's address being its index, 0 the nil pointer),   *)
(* because the parser keeps one pointer `o` to the source under            *)
(* construction and appends that pointer to sources lists, so that lists   *)
(* may share an object.  A nil dereference or an index out of range is a   *)
(* run-time panic of the Go program and is modelled as the control state   *)
(* "panic".                                                                *)
(***************************************************************************)
EXTENDS Integers, Sequences, FiniteSets, TLC

VARIABLES
    pnodes,   \* Parms.Nodes, the configured node-name list
    text,     \* the lines the reader has still to yield, or AnyText
    pc,       \* "ReadCfg" while scanning, "returned" after return, "panic"
    rerr,     \* the error ReadCfg returned: "none" (not yet), "nil", "empty"
    tree,     \* c.tree: node name -> node record
    heap,     \* the source objects allocated by newObject() for leaves
    tnode,    \* ReadCfg local: current node name
    nodes,    \* ReadCfg local: context stack
    o,        \* ReadCfg local: pointer to the source under construction
    line,     \* ReadCfg local: the line scanned last (NoLine before any)
    nlines,   \* number of lines scanned so far
    first,    \* history: kind of the first line scanned ("none" before any)
    sawNode,  \* history: a node-open line has been scanned
    decl,     \* history: the appends to sources lists, in text order
    res,      \* the result of the last NewContent / GetAll call
    out,      \* the last two results of Config.String
    lists,    \* the Entry Sets: list name -> its mutex pointer and its map
    mu,       \* the sync.RWMutex objects: the writer and the readers inside
    th        \* the goroutines working on the Entry Sets

vars == <<pnodes, text, pc, rerr, tree, heap, tnode, nodes, o, line, nlines,
          first, sawNode, decl, res, out, lists, mu, th>>

-----------------------------------------------------------------------------
\* Bounds of the model.
MaxLines == 3

\* String constants of config.go.
blackhole == "dns-redirect-ip"
domains   == "domains"
files     == "file"
hosts     == "hosts"
notknown  == "unknown"
rootNode  == "blacklist"
src       == "source"
urls      == "url"
ExcDomns  == "domn-excludes"
ExcHosts  == "host-excludes"
ExcRoots  == "root-excludes"
PreDomns  == "pre-configured-domain"
PreHosts  == "pre-configured-host"

\* The node names, leaf kinds and values the input text is drawn from.
NodeNames == {rootNode, domains, hosts}
LeafOpens == {<<src, "a">>, <<src, "b">>, <<"zone", "a">>}
Values    == {"x", "y"}
IPs       == {"ip1", "ip2"}
NameKeys  == {"description", files, "prefix", urls, "other"}

NoLine == [k |-> "none"]

\* A trimmed input line, classified by the first pattern of the switch of
\* ReadCfg that matches it.  A dns-redirect-ip line matches IPBH and NAME;
\* which case takes it depends on the context stack (see ScanLine).
Lines ==
    [k : {"mlti"}, key : {"exclude", "include"}, v : Values]
    \cup [k : {"node"}, name : NodeNames]
    \cup {[k |-> "leaf", kind |-> l[1], name |-> l[2]] : l \in LeafOpens}
    \cup [k : {"dsbl"}, v : BOOLEAN]
    \cup [k : {"ipbh"}, v : IPs]
    \cup [k : {"name"}, key : NameKeys, v : {"v"}]
    \cup {[k |-> "cmnt"], [k |-> "rbrc"]}

\* The reader of a text that is not fixed in advance: every b.Scan() may
\* yield any line of Lines, or report the end of the text.
AnyText == <<[k |-> "any"]>>

LNode(n)    == [k |-> "node", name |-> n]
LLeaf(k, n) == [k |-> "leaf", kind |-> k, name |-> n]
LMlti(k, v) == [k |-> "mlti", key |-> k, v |-> v]
LIpbh(v)    == [k |-> "ipbh", v |-> v]
LName(k)    == [k |-> "name", key |-> k, v |-> "v"]
LRbrc       == [k |-> "rbrc"]

\* Longer configuration texts, scanned line by line.
\* TextExample: the root with a blackhole ip and an exclude, a domains
\* block with an exclude, an include and a url source, a hosts block with
\* a file source.
TextExample ==
    <<LNode(rootNode), LIpbh("ip1"), LMlti("exclude", "y"), LNode(domains),
      LMlti("exclude", "x"), LMlti("include", "y"), LLeaf(src, "a"),
      LName(urls), LRbrc, LRbrc, LNode(hosts), LLeaf(src, "b"),
      LName(files), LRbrc, LRbrc, LRbrc>>
\* TextHostsFirst: the hosts block precedes the domains block, each with
\* a file source; the second source has an ip of its own.
TextHostsFirst ==
    <<LNode(rootNode), LIpbh("ip1"), LNode(hosts), LLeaf(src, "a"),
      LName(files), LRbrc, LRbrc, LNode(domains), LMlti("exclude", "x"),
      LLeaf(src, "b"), LIpbh("ip2"), LName(files), LRbrc, LRbrc, LRbrc>>
\* TextNoRoot: a hosts block and a domains block without the root node;
\* one source has a file and a url line.
TextNoRoot ==
    <<LNode(hosts), LLeaf(src, "a"), LIpbh("ip1"), LName(files), LRbrc,
      LRbrc, LNode(domains), LIpbh("ip2"), LLeaf(src, "b"), LName(files),
      LName(urls), LRbrc, LRbrc>>
\* TextReopen: the domains block is opened a second time, and a url line
\* follows the close-brace of its source block.
TextReopen ==
    <<LNode(rootNode), LNode(domains), LMlti("include", "x"),
      LLeaf(src, "a"), LName(urls), LRbrc, LRbrc, LNode(hosts),
      LNode(domains), LLeaf(src, "b"), LName(urls), LRbrc, LName(urls),
      LRbrc, LRbrc>>
\* TextLeafFirst: a leaf block is opened before the first node block, and
\* a dns-redirect-ip line follows the close-brace of the node block.
TextLeafFirst ==
    <<LLeaf("zone", "a"), LNode(domains), LRbrc, LIpbh("ip1")>>
\* TextNested: a leaf block opened inside a source block, and an exclude
\* line after its close-brace.
TextNested ==
    <<LNode(rootNode), LNode(domains), LLeaf(src, "a"), LLeaf("zone", "a"),
      LRbrc, LMlti("exclude", "x")>>

Texts == {TextExample, TextHostsFirst, TextNoRoot, TextReopen, TextLeafFirst,
          TextNested}

\* The configured node-name lists the settings bag may hold.
ParmsNodes ==
    {<<domains, hosts>>, <<hosts, domains>>, <<rootNode, domains, hosts>>}

-----------------------------------------------------------------------------
\* newObject() as used for a node: no flag, no ip, empty lists.
newNode ==
    [disabled |-> FALSE, ip |-> "", exc |-> <<>>, inc |-> <<>>, x |-> <<>>]

\* getType(tnode).(ntype): the node type of a node name.
getType(n) ==
    CASE n = domains  -> "domn"
      [] n = hosts    -> "host"
      [] n = rootNode -> "root"
      [] OTHER        -> notknown

\* newObject() as used for a source leaf, with name and nType set.
newSource(leaf, tn) ==
    [name |-> leaf, nType |-> getType(tn), desc |-> "", ip |-> "",
     file |-> "", url |-> "", prefix |-> "", ltype |-> ""]

Last(s) == s[Len(s)]

\* The Entry Sets and goroutines before any Entry Set operation: the two
\* lists of the settings bag, each with a mutex of its own and an empty
\* map, and no list returned by excludes() yet (mutex 0 is the nil pointer).
Threads == {1, 2}

EmptyEntry == [k \in {} |-> 0]

NoNames == [called |-> FALSE, nil |-> TRUE, ns |-> <<>>]

Idle == [op |-> "none", pc |-> "idle", l |-> "a", l2 |-> "a", k |-> <<>>,
         cur |-> <<>>, todo |-> {}, final |-> FALSE, ret |-> "none",
         str |-> <<>>, names |-> NoNames]

NewLists ==
    [n \in {"a", "b", "e"} |->
        [made  |-> n # "e",
         mu    |-> CASE n = "a" -> 1 [] n = "b" -> 2 [] OTHER -> 0,
         entry |-> EmptyEntry]]

NewMutexes == [m \in {1, 2} |-> [w |-> 0, r |-> {}]]

ListsIdle ==
    /\ lists = NewLists
    /\ mu = NewMutexes
    /\ th = [t \in Threads |-> Idle]

InTree(t, n) == n \in DOMAIN t

\* c.tree[n] = v for a name that may be new.
PutNode(t, n, v) ==
    [m \in DOMAIN t \cup {n} |-> IF m = n THEN v ELSE t[m]]

Init ==
    /\ pnodes \in ParmsNodes
    /\ text \in {AnyText} \cup Texts
    /\ pc = "ReadCfg"
    /\ rerr = "none"
    /\ tree = <<>>
    /\ heap = <<>>
    /\ tnode = ""
    /\ nodes = <<>>
    /\ o = 0
    /\ line = NoLine
    /\ nlines = 0
    /\ first = "none"
    /\ sawNode = FALSE
    /\ decl = <<>>
    /\ res = [status |-> "none"]
    /\ out = [rendered |-> "none", s |-> <<>>, prev |-> <<>>]
    /\ ListsIdle

-----------------------------------------------------------------------------
\* The parser state one line acts on, and the panic of a nil dereference
\* or of an index out of range.
Cur == [tree |-> tree, heap |-> heap, tnode |-> tnode, nodes |-> nodes,
        o |-> o, decl |-> decl, panic |-> FALSE]

Panic(s) == [s EXCEPT !.panic = TRUE]

\* case rx.MLTI: append the value to the current node's exc or inc.
\* c.tree[tnode] is a nil pointer when tnode is no key of the tree.
ScanMlti(s, l) ==
    IF ~InTree(s.tree, s.tnode) THEN Panic(s)
    ELSE IF l.key = "exclude"
    THEN [s EXCEPT !.tree[s.tnode].exc = Append(@, l.v)]
    ELSE [s EXCEPT !.tree[s.tnode].inc = Append(@, l.v)]

\* case rx.NODE: the name becomes the current node, is pushed, and
\* c.tree[tnode] is assigned a new object.
ScanNode(s, l) ==
    [s EXCEPT !.tnode = l.name,
              !.nodes = Append(@, l.name),
              !.tree  = PutNode(@, l.name, newNode)]

\* case rx.LEAF: the leaf kind is pushed; a source leaf allocates the
\* object o, named after the leaf and typed after the current node.
ScanLeaf(s, l) ==
    IF l.kind = src
    THEN [s EXCEPT !.nodes = Append(@, l.kind),
                   !.heap  = Append(@, newSource(l.name, s.tnode)),
                   !.o     = Len(s.heap) + 1]
    ELSE [s EXCEPT !.nodes = Append(@, l.kind)]

\* case rx.DSBL: set the current node's disabled flag.
ScanDsbl(s, l) ==
    IF ~InTree(s.tree, s.tnode) THEN Panic(s)
    ELSE [s EXCEPT !.tree[s.tnode].disabled = l.v]

\* case rx.NAME: route the attribute to the source under construction;
\* file and url also append o to the current node's sources.
ScanName(s, key, v) ==
    IF key \notin {"description", blackhole, files, "prefix", urls} THEN s
    ELSE IF s.o = 0 THEN Panic(s)
    ELSE IF key = "description" THEN [s EXCEPT !.heap[s.o].desc = v]
    ELSE IF key = blackhole THEN [s EXCEPT !.heap[s.o].ip = v]
    ELSE IF key = "prefix" THEN [s EXCEPT !.heap[s.o].prefix = v]
    ELSE LET h == IF key = files
                  THEN [s.heap EXCEPT ![s.o].file = v, ![s.o].ltype = key]
                  ELSE [s.heap EXCEPT ![s.o].ltype = key, ![s.o].url = v]
         IN  IF ~InTree(s.tree, s.tnode)
             THEN Panic([s EXCEPT !.heap = h])
             ELSE [s EXCEPT !.heap = h,
                            !.tree[s.tnode].x = Append(@, s.o),
                            !.decl = Append(@, [node |-> s.tnode, id |-> s.o])]

\* case rx.IPBH.Match(line) && nodes[len(nodes)-1] != src: the line sets
\* the current node's ip; with `source` on top of the stack the case does
\* not match and the line falls to rx.NAME with key dns-redirect-ip.
\* nodes[len(nodes)-1] is out of range while the stack is empty.
ScanIpbh(s, l) ==
    IF Len(s.nodes) = 0 THEN Panic(s)
    ELSE IF Last(s.nodes) # src
    THEN IF ~InTree(s.tree, s.tnode) THEN Panic(s)
         ELSE [s EXCEPT !.tree[s.tnode].ip = l.v]
    ELSE ScanName(s, blackhole, l.v)

\* Mutant of ScanRbrc: the stack is popped while it holds an entry, and the
\* current node is kept when the stack is left empty.
ScanRbrcToEmpty(s) ==
    IF Len(s.nodes) > 0
    THEN LET n == SubSeq(s.nodes, 1, Len(s.nodes) - 1)
         IN  [s EXCEPT !.nodes = n,
                       !.tnode = IF Len(n) > 0 THEN Last(n) ELSE @]
    ELSE s

\* case rx.RBRC: pop the stack while it holds more than one entry.
ScanRbrc(s) ==
    IF Len(s.nodes) > 1
    THEN LET n == SubSeq(s.nodes, 1, Len(s.nodes) - 1)
         IN  [s EXCEPT !.nodes = n, !.tnode = Last(n)]
    ELSE s

\* The body of the LINE loop for one line.
Scan(s, l) ==
    CASE l.k = "mlti" -> ScanMlti(s, l)
      [] l.k = "node" -> ScanNode(s, l)
      [] l.k = "leaf" -> ScanLeaf(s, l)
      [] l.k = "dsbl" -> ScanDsbl(s, l)
      [] l.k = "ipbh" -> ScanIpbh(s, l)
      [] l.k = "name" -> ScanName(s, l.key, l.v)
      [] l.k = "cmnt" -> s
      [] l.k = "rbrc" -> ScanRbrc(s)

\* The locals of ReadCfg before the first line and after it has returned.
Locals0 ==
    /\ tnode' = ""
    /\ nodes' = <<>>
    /\ o' = 0
    /\ line' = NoLine
    /\ nlines' = 0

\* The loop body applied to line l.
Body(l) ==
    LET s == Scan(Cur, l) IN
    /\ line' = l
    /\ nlines' = nlines + 1
    /\ first' = IF nlines = 0 THEN l.k ELSE first
    /\ sawNode' = (sawNode \/ l.k = "node")
    /\ tree' = s.tree
    /\ heap' = s.heap
    /\ tnode' = s.tnode
    /\ nodes' = s.nodes
    /\ o' = s.o
    /\ decl' = s.decl
    /\ pc' = IF s.panic THEN "panic" ELSE "ReadCfg"

\* b.Scan() yields one more line of a text that is not fixed in advance.
ScanLine ==
    /\ pc = "ReadCfg"
    /\ text = AnyText
    /\ nlines < MaxLines
    /\ \E l \in Lines : Body(l)
    /\ UNCHANGED <<pnodes, text, rerr, res, out, lists, mu, th>>

\* b.Scan() yields the next line of the given text.
ScanText ==
    /\ pc = "ReadCfg"
    /\ text # AnyText
    /\ text # <<>>
    /\ Body(Head(text))
    /\ text' = Tail(text)
    /\ UNCHANGED <<pnodes, rerr, res, out, lists, mu, th>>

\* b.Scan() reports the end of the text: ReadCfg returns the empty
\* configuration error when the tree has no node, and nil otherwise.
Return ==
    /\ pc = "ReadCfg"
    /\ text \in {AnyText, <<>>}
    /\ pc' = "returned"
    /\ rerr' = IF Cardinality(DOMAIN tree) < 1 THEN "empty" ELSE "nil"
    /\ Locals0
    /\ UNCHANGED <<pnodes, text, tree, heap, first, sawNode, decl, res, out,
                   lists, mu, th>>

-----------------------------------------------------------------------------
\* Views.  An element of a view is a pointer into the heap (Ref(i), Ref(0)
\* being a nil pointer stored in the slice) or an aggregate object that
\* addExc / addInc synthesize.  The desc and name of an aggregate are
\* strings the code concatenates or formats: they are kept as the sequence
\* of their parts, the count of fmt.Sprintf("includes.[%v]", n) a number.
Ref(i) == [ref |-> i]

\* tree.getIP: the node's ip, or the root's when it is the empty string.
\* b[node] and b[rootNode] are nil pointers when the key is missing.
getIP(t, node) ==
    IF ~InTree(t, node) THEN [panic |-> TRUE, ip |-> ""]
    ELSE IF t[node].ip = ""
    THEN IF ~InTree(t, rootNode) THEN [panic |-> TRUE, ip |-> ""]
         ELSE [panic |-> FALSE, ip |-> t[rootNode].ip]
    ELSE [panic |-> FALSE, ip |-> t[node].ip]

\* Mutant of validateFrom: the test obj.ip == "" is dropped, every source
\* gets the node's resolved ip.
RECURSIVE validateOverwrite(_, _, _, _)
validateOverwrite(t, h, node, i) ==
    IF i > Len(t[node].x) THEN [panic |-> FALSE, heap |-> h]
    ELSE LET g == getIP(t, node) IN
         IF g.panic THEN [panic |-> TRUE, heap |-> h]
         ELSE validateOverwrite(t, [h EXCEPT ![t[node].x[i]].ip = g.ip],
                                node, i + 1)

\* The loop of tree.validate from the i-th source of the node on.
RECURSIVE validateFrom(_, _, _, _)
validateFrom(t, h, node, i) ==
    IF i > Len(t[node].x) THEN [panic |-> FALSE, heap |-> h]
    ELSE LET id == t[node].x[i] IN
         IF h[id].ip = ""
         THEN LET g == getIP(t, node) IN
              IF g.panic THEN [panic |-> TRUE, heap |-> h]
              ELSE validateFrom(t, [h EXCEPT ![id].ip = g.ip], node, i + 1)
         ELSE validateFrom(t, h, node, i + 1)

\* tree.validate: fill the empty ip of every source of the node and
\* return the node's sources.
validate(t, h, node) ==
    IF ~InTree(t, node) THEN [panic |-> TRUE, heap |-> h, x |-> <<>>]
    ELSE LET r == validateFrom(t, h, node, 1) IN
         [panic |-> r.panic, heap |-> r.heap, x |-> t[node].x]

\* Mutant of addExc: the ip is the node's own, not the resolved one.
addExcOwnIP(t, node) ==
    LET ltype == CASE node = domains  -> ExcDomns
                   [] node = hosts    -> ExcHosts
                   [] node = rootNode -> ExcRoots
                   [] OTHER           -> ""
    IN  IF ~InTree(t, node) THEN [panic |-> TRUE, x |-> <<>>]
        ELSE [panic |-> FALSE,
              x |-> << [desc  |-> <<ltype, " exclusions">>,
                        exc   |-> t[node].exc,
                        ip    |-> t[node].ip,
                        ltype |-> ltype,
                        name  |-> <<ltype>>] >>]

\* Config.addExc: one aggregate object with the node's exclude list.
addExc(t, node) ==
    LET ltype == CASE node = domains  -> ExcDomns
                   [] node = hosts    -> ExcHosts
                   [] node = rootNode -> ExcRoots
                   [] OTHER           -> ""
        g == getIP(t, node)
    IN  IF ~InTree(t, node) \/ g.panic THEN [panic |-> TRUE, x |-> <<>>]
        ELSE [panic |-> FALSE,
              x |-> << [desc  |-> <<ltype, " exclusions">>,
                        exc   |-> t[node].exc,
                        ip    |-> g.ip,
                        ltype |-> ltype,
                        name  |-> <<ltype>>] >>]

\* Config.addInc: an aggregate object with the node's include list, or
\* nil when the list is empty.
addInc(t, node) ==
    IF ~InTree(t, node) THEN [panic |-> TRUE, obj |-> Ref(0)]
    ELSE LET inc == t[node].inc
             ltype == CASE node = domains -> PreDomns
                        [] node = hosts   -> PreHosts
                        [] OTHER          -> ""
             g == getIP(t, node)
         IN  IF Len(inc) > 0
             THEN IF g.panic THEN [panic |-> TRUE, obj |-> Ref(0)]
                  ELSE [panic |-> FALSE,
                        obj |-> [desc  |-> <<ltype, " blacklist content">>,
                                 inc   |-> inc,
                                 ip    |-> g.ip,
                                 ltype |-> ltype,
                                 name  |-> <<"includes.[", Len(inc), "]">>]]
             ELSE [panic |-> FALSE, obj |-> Ref(0)]

\* The sources of xs, in order, whose ltype is the given one.
RECURSIVE ofType(_, _, _)
ofType(h, xs, ltype) ==
    IF xs = <<>> THEN <<>>
    ELSE (IF h[Head(xs)].ltype = ltype THEN <<Ref(Head(xs))>> ELSE <<>>)
         \o ofType(h, Tail(xs), ltype)

Refs(xs) == [i \in 1..Len(xs) |-> Ref(xs[i])]

\* Objects.addObj: append the validated sources of the node.
addObj(a, t, node) ==
    LET v == validate(t, a.heap, node) IN
    IF v.panic THEN [a EXCEPT !.panic = TRUE, !.heap = v.heap]
    ELSE [a EXCEPT !.heap = v.heap, !.x = @ \o Refs(v.x)]

\* The ltype of a call of GetAll without ltypes.
NoLtype == "nil"

\* Mutant of GetAllNode: the filtered sources of a node are put before
\* those collected so far.
GetAllNodePrepend(a, t, node, ltype) ==
    CASE ltype = NoLtype -> addObj(a, t, node)
      [] ltype = PreDomns ->
           IF a.newDomns /\ node = domains
           THEN LET r == addInc(t, node) IN
                IF r.panic THEN [a EXCEPT !.panic = TRUE]
                ELSE [a EXCEPT !.x = Append(@, r.obj), !.newDomns = FALSE]
           ELSE a
      [] ltype = PreHosts ->
           IF a.newHosts /\ node = hosts
           THEN LET r == addInc(t, node) IN
                IF r.panic THEN [a EXCEPT !.panic = TRUE]
                ELSE [a EXCEPT !.x = Append(@, r.obj), !.newHosts = FALSE]
           ELSE a
      [] OTHER ->
           LET v == validate(t, a.heap, node) IN
           IF v.panic THEN [a EXCEPT !.panic = TRUE, !.heap = v.heap]
           ELSE [a EXCEPT !.heap = v.heap,
                          !.x = ofType(v.heap, v.x, ltype) \o @]

\* The body of the loop of Config.GetAll for one node of Parms.Nodes;
\* ltype is NoLtype when GetAll is called without ltypes.
GetAllNode(a, t, node, ltype) ==
    CASE ltype = NoLtype -> addObj(a, t, node)
      [] ltype = PreDomns ->
           IF a.newDomns /\ node = domains
           THEN LET r == addInc(t, node) IN
                IF r.panic THEN [a EXCEPT !.panic = TRUE]
                ELSE [a EXCEPT !.x = Append(@, r.obj), !.newDomns = FALSE]
           ELSE a
      [] ltype = PreHosts ->
           IF a.newHosts /\ node = hosts
           THEN LET r == addInc(t, node) IN
                IF r.panic THEN [a EXCEPT !.panic = TRUE]
                ELSE [a EXCEPT !.x = Append(@, r.obj), !.newHosts = FALSE]
           ELSE a
      [] OTHER ->
           LET v == validate(t, a.heap, node) IN
           IF v.panic THEN [a EXCEPT !.panic = TRUE, !.heap = v.heap]
           ELSE [a EXCEPT !.heap = v.heap,
                          !.x = @ \o ofType(v.heap, v.x, ltype)]

RECURSIVE GetAllFrom(_, _, _, _)
GetAllFrom(a, t, ns, ltype) ==
    IF ns = <<>> \/ a.panic THEN a
    ELSE GetAllFrom(GetAllNode(a, t, Head(ns), ltype), t, Tail(ns), ltype)

\* Config.GetAll: the objects of the nodes of Parms.Nodes, in that order.
GetAll(t, h, pn, ltype) ==
    GetAllFrom([panic |-> FALSE, heap |-> h, x |-> <<>>,
                newDomns |-> TRUE, newHosts |-> TRUE], t, pn, ltype)

\* Config.Get for one node name.
Get(t, h, node) ==
    addObj([panic |-> FALSE, heap |-> h, x |-> <<>>], t, node)

\* Objects.Filter over an element sequence of heap pointers.
Filter(h, xs, ltype) ==
    SelectSeq(xs, LAMBDA e : h[e.ref].ltype = ltype)

\* The request kinds, and IFace.String.
IFaces == {"ExDmObj", "ExHtObj", "ExRtObj", "FileObj", "PreDObj", "PreHObj",
           "URLdObj", "URLhObj", "Invalid"}

IFaceString(iface) ==
    CASE iface = "ExDmObj" -> ExcDomns
      [] iface = "ExHtObj" -> ExcHosts
      [] iface = "ExRtObj" -> ExcRoots
      [] iface = "FileObj" -> files
      [] iface = "PreDObj" -> PreDomns
      [] iface = "PreHObj" -> PreHosts
      [] iface \in {"URLdObj", "URLhObj"} -> urls
      [] OTHER -> notknown

\* What a call returns: a view (the wrapper type and its objects), an
\* error without a view, or a panic; heap is the heap the call leaves.
RView(wrap, x, h) == [status |-> "view", wrap |-> wrap, x |-> x, heap |-> h]
RError(h)         == [status |-> "error", wrap |-> "nil", x |-> <<>>, heap |-> h]
RPanic(h)         == [status |-> "panic", wrap |-> "nil", x |-> <<>>, heap |-> h]

Wrapper(iface) ==
    CASE iface = "ExDmObj" -> "ExcDomnObjects"
      [] iface = "ExHtObj" -> "ExcHostObjects"
      [] iface = "ExRtObj" -> "ExcRootObjects"
      [] iface = "FileObj" -> "FIODataObjects"
      [] iface = "PreDObj" -> "PreDomnObjects"
      [] iface = "PreHObj" -> "PreHostObjects"
      [] iface = "URLdObj" -> "URLDomnObjects"
      [] iface = "URLhObj" -> "URLHostObjects"

\* Mutant of NewContent: the case "unknown" is missing, so that the tag
\* falls to the default case and the call returns nil, nil.
NewContentNoUnknown(t, h, pn, iface) ==
    LET ltype == IFaceString(iface) IN
    CASE ltype \in {ExcDomns, ExcHosts, ExcRoots} ->
           LET r == addExc(t, CASE ltype = ExcDomns -> domains
                                [] ltype = ExcHosts -> hosts
                                [] ltype = ExcRoots -> rootNode)
           IN  IF r.panic THEN RPanic(h) ELSE RView(Wrapper(iface), r.x, h)
      [] ltype = urls ->
           LET g == Get(t, h, IF iface = "URLdObj" THEN domains ELSE hosts)
           IN  IF g.panic THEN RPanic(g.heap)
               ELSE RView(Wrapper(iface), Filter(g.heap, g.x, urls), g.heap)
      [] OTHER ->
           LET g == GetAll(t, h, pn, ltype)
           IN  IF g.panic THEN RPanic(g.heap)
               ELSE IF ltype = notknown
               THEN [status |-> "nil", wrap |-> "nil", x |-> <<>>,
                     heap |-> g.heap]
               ELSE RView(Wrapper(iface), g.x, g.heap)

\* Config.NewContent.
NewContent(t, h, pn, iface) ==
    LET ltype == IFaceString(iface) IN
    CASE ltype \in {ExcDomns, ExcHosts, ExcRoots} ->
           LET r == addExc(t, CASE ltype = ExcDomns -> domains
                                [] ltype = ExcHosts -> hosts
                                [] ltype = ExcRoots -> rootNode)
           IN  IF r.panic THEN RPanic(h) ELSE RView(Wrapper(iface), r.x, h)
      [] ltype = urls ->
           LET g == Get(t, h, IF iface = "URLdObj" THEN domains ELSE hosts)
           IN  IF g.panic THEN RPanic(g.heap)
               ELSE RView(Wrapper(iface), Filter(g.heap, g.x, urls), g.heap)
      [] ltype = notknown -> RError(h)
      [] OTHER ->
           LET g == GetAll(t, h, pn, ltype)
           IN  IF g.panic THEN RPanic(g.heap)
               ELSE RView(Wrapper(iface), g.x, g.heap)

\* A caller requests a view of the tree ReadCfg has built.
CanCall == pc = "returned" /\ rerr = "nil"

NewContentCall ==
    /\ CanCall
    /\ \E iface \in IFaces :
         LET r == NewContent(tree, heap, pnodes, iface) IN
         /\ res' = [iface |-> iface, status |-> r.status, wrap |-> r.wrap,
                    x |-> r.x]
         /\ heap' = r.heap
         /\ pc' = IF r.status = "panic" THEN "panic" ELSE pc
    /\ UNCHANGED <<pnodes, text, rerr, tree, tnode, nodes, o, line, nlines,
                   first, sawNode, decl, out, lists, mu, th>>

\* A caller requests all sources: GetAll without ltypes.
GetAllCall ==
    /\ CanCall
    /\ LET g == GetAll(tree, heap, pnodes, NoLtype) IN
         /\ res' = [iface |-> "GetAll",
                    status |-> IF g.panic THEN "panic" ELSE "view",
                    wrap |-> IF g.panic THEN "nil" ELSE "Objects",
                    x |-> IF g.panic THEN <<>> ELSE g.x]
         /\ heap' = g.heap
         /\ pc' = IF g.panic THEN "panic" ELSE pc
    /\ UNCHANGED <<pnodes, text, rerr, tree, tnode, nodes, o, line, nlines,
                   first, sawNode, decl, out, lists, mu, th>>

Next == ScanLine \/ ScanText \/ Return \/ NewContentCall \/ GetAllCall

Spec == Init /\ [][Next]_vars

-----------------------------------------------------------------------------
\* The renderer.  Go compares strings byte by byte: of the node names of
\* the texts, "blacklist" < "domains" < "hosts".
StrRank == (rootNode :> 1) @@ (domains :> 2) @@ (hosts :> 3)

StrLess(a, b) == StrRank[a] < StrRank[b]

\* The orders in which `for k := range c.tree` may yield the keys.
RangeOrders(t) ==
    {q \in [1..Cardinality(DOMAIN t) -> DOMAIN t] :
        \A i, j \in DOMAIN q : i # j => q[i] # q[j]}

\* sort.StringSlice.Sort, as an insertion sort.
RECURSIVE Sort(_)
Sort(q) ==
    IF q = <<>> THEN <<>>
    ELSE LET r == Sort(Tail(q))
             k == Head(q)
         IN  SelectSeq(r, LAMBDA x : StrLess(x, k)) \o <<k>>
               \o SelectSeq(r, LAMBDA x : ~StrLess(x, k))

\* Mutant of sortKeys: the keys are returned in the order of the range.
sortKeysUnsorted(order) == order

\* Config.sortKeys: the keys of the tree, collected in the order of the
\* range and sorted.
sortKeys(order) == Sort(order)

\* Config.String: one entry per key of sortKeys(), holding the node's
\* disabled flag, ip and excludes and, for a node other than the root, its
\* includes and sources; the comma is dropped after the last entry.  The
\* text is kept as the sequence of its entries.  sortKeys() is called
\* twice, for the count and for the loop.
String(t, h, order1, order2) ==
    LET cnt   == Len(sortKeys(order1))
        pkeys == sortKeys(order2)
    IN  [i \in 1..Len(pkeys) |->
           LET pkey == pkeys[i] IN
           [pkey     |-> pkey,
            disabled |-> t[pkey].disabled,
            ip       |-> t[pkey].ip,
            excludes |-> t[pkey].exc,
            includes |-> IF pkey # rootNode THEN t[pkey].inc ELSE <<>>,
            sources  |-> IF pkey # rootNode
                         THEN [j \in 1..Len(t[pkey].x) |-> h[t[pkey].x[j]]]
                         ELSE <<>>,
            cmma     |-> i # cnt]]

\* A caller renders the configuration.
StringCall ==
    /\ pc = "returned"
    /\ \E order1, order2 \in RangeOrders(tree) :
         out' = [rendered |-> IF out.rendered = "none" THEN "once" ELSE "twice",
                 s        |-> String(tree, heap, order1, order2),
                 prev     |-> out.s]
    /\ UNCHANGED <<pnodes, text, pc, rerr, tree, heap, tnode, nodes, o, line,
                   nlines, first, sawNode, decl, res, lists, mu, th>>

NextString == ScanLine \/ ScanText \/ Return \/ StringCall

SpecString == Init /\ [][NextString]_vars

-----------------------------------------------------------------------------
\* Properties of the parser.

Range(f) == {f[i] : i \in DOMAIN f}

\* One more line has been scanned in this step.
Scanned == pc = "ReadCfg" /\ nlines' = nlines + 1

\* C1: a node-open line whose name is already a key of the tree leaves the
\* node of that name as it was: its disabled flag, ip, includes, excludes
\* and sources are all still present after the line.
C1_NodeReused ==
    [][(Scanned /\ line'.k = "node" /\ InTree(tree, line'.name))
          => tree'[line'.name] = tree[line'.name]]_vars

\* C2: when the text holds no node-open line, ReadCfg returns the empty
\* configuration error and the tree is empty; it ends in no other way.
C2_NoNodeOpenIsEmptyError ==
    (~sawNode /\ pc # "ReadCfg")
        => (pc = "returned" /\ rerr = "empty" /\ DOMAIN tree = {})

\* C3: when the first line of the text is a node-open line, no later line
\* aborts the parse, and ReadCfg returns success.
C3_NodeFirstNeverAborts ==
    first = "node"
        => /\ ~(pc = "panic" /\ rerr = "none")
           /\ (pc = "returned" => rerr = "nil")

-----------------------------------------------------------------------------
\* Properties of the views.

\* C4: in a tree of a successful ReadCfg, getIP of a node is the node's own
\* ip when that is non-empty, the root's ip when it is empty, and the empty
\* string when both are empty.
C4_GetIPResolves ==
    CanCall =>
        \A n \in DOMAIN tree :
            LET g == getIP(tree, n) IN
            /\ ~g.panic
            /\ g.ip = IF tree[n].ip # "" THEN tree[n].ip
                      ELSE IF InTree(tree, rootNode) THEN tree[rootNode].ip
                      ELSE ""

\* The node a request kind is scoped to.
Scope(iface) ==
    CASE iface \in {"ExDmObj", "PreDObj", "URLdObj"} -> domains
      [] iface \in {"ExHtObj", "PreHObj", "URLhObj"} -> hosts
      [] iface = "ExRtObj" -> rootNode

Recognized == IFaces \ {"Invalid"}
Returned(kinds) == res.status = "view" /\ res.iface \in kinds

\* C5: a view request leaves every node record (disabled, ip, includes,
\* excludes, the sources list) as it was and changes no field of a source
\* but an empty ip, which an all-sources or filtered view sets to the
\* resolved ip of a node that holds the source.
C5_ViewsOnlyFillEmptyIP ==
    [][CanCall =>
        /\ tree' = tree
        /\ Len(heap') = Len(heap)
        /\ \A i \in 1..Len(heap) :
             /\ [heap'[i] EXCEPT !.ip = heap[i].ip] = heap[i]
             /\ heap[i].ip # "" => heap'[i].ip = heap[i].ip
             /\ heap'[i].ip # heap[i].ip =>
                  /\ res'.iface \in {"FileObj", "URLdObj", "URLhObj", "GetAll"}
                  /\ \E n \in DOMAIN tree :
                       /\ i \in Range(tree[n].x)
                       /\ ~getIP(tree, n).panic
                       /\ heap'[i].ip = getIP(tree, n).ip]_vars

\* A file view has been returned that holds a source which kept its own ip,
\* different from its node's ip, and a source which has the resolved ip of
\* its node.
C5_Witness ==
    /\ Returned({"FileObj"})
    /\ \E n, m \in DOMAIN tree :
         \E i \in Range(tree[n].x), j \in Range(tree[m].x) :
            /\ {Ref(i), Ref(j)} \subseteq Range(res.x)
            /\ heap[i].ip \notin {"", getIP(tree, n).ip}
            /\ heap[j].ip # ""
            /\ heap[j].ip = getIP(tree, m).ip
            /\ heap[j].ip # heap[i].ip

UnionExc == UNION {Range(tree[n].exc) : n \in DOMAIN tree}

C7_InclusionView ==
    Returned({"PreDObj", "PreHObj"}) =>
        LET n == Scope(res.iface) IN
        IF InTree(tree, n) /\ Len(tree[n].inc) > 0
        THEN /\ Len(res.x) = 1
             /\ res.x[1] # Ref(0)
             /\ res.x[1].name = <<"includes.[", Len(tree[n].inc), "]">>
             /\ res.x[1].ltype = IFaceString(res.iface)
             /\ res.x[1].inc = tree[n].inc
             /\ res.x[1].ip = getIP(tree, n).ip
        ELSE res.x = <<>>

\* The last k elements of a sequence.
LastK(q, k) == IF k >= Len(q) THEN q ELSE SubSeq(q, Len(q) - k + 1, Len(q))

\* The declarations in node n that its sources list holds: one for each
\* element of the list, the last ones of the text (a node-open line makes
\* a new node record).
Held(n) ==
    LastK(SelectSeq(decl, LAMBDA e : e.node = n), Len(tree[n].x))

\* The sources of type ltype that node n holds, in the order of their
\* declaration in the text.
HeldInOrder(n, ltype) ==
    LET f == SelectSeq(Held(n), LAMBDA e : heap[e.id].ltype = ltype)
    IN  [i \in 1..Len(f) |-> Ref(f[i].id)]

RECURSIVE ByNode(_, _)
ByNode(ns, ltype) ==
    IF ns = <<>> THEN <<>>
    ELSE HeldInOrder(Head(ns), ltype) \o ByNode(Tail(ns), ltype)

FileOrURL == {"FileObj", "URLdObj", "URLhObj"}

\* C8 as claimed: the sources of a file or url view are in the order of
\* their declaration in the text.
C8_ViewInTextOrder ==
    Returned(FileOrURL) =>
        LET d == SelectSeq(decl, LAMBDA e : Ref(e.id) \in Range(res.x))
        IN  \E f \in [1..Len(res.x) -> 1..Len(d)] :
               /\ \A p, q \in 1..Len(res.x) : p < q => f[p] < f[q]
               /\ \A p \in 1..Len(res.x) : Ref(d[f[p]].id) = res.x[p]

\* C8 as amended: a file view lists the nodes in the order of the
\* configured node-name list, and a url view its one node; within a node
\* the matching sources the node holds are in the order of their
\* declaration in the text.
C8_ViewByNodeThenTextOrder ==
    Returned(FileOrURL) =>
        /\ \A n \in DOMAIN tree : Len(Held(n)) = Len(tree[n].x)
        /\ res.x = ByNode(IF res.iface = "FileObj" THEN pnodes
                          ELSE <<Scope(res.iface)>>,
                          IFaceString(res.iface))

\* A file view has been returned that holds two sources of two nodes in
\* the order of the configured list, which is not their order in the text.
C8_Witness ==
    /\ Returned({"FileObj"})
    /\ Len(res.x) = 2
    /\ res.x[1] # res.x[2]
    /\ LET d == SelectSeq(decl, LAMBDA e : heap[e.id].ltype = files)
       IN  /\ Len(d) = 2
           /\ res.x = <<Ref(d[2].id), Ref(d[1].id)>>

\* C9: NewContent with an unrecognized tag returns an error and no view and
\* leaves tree and sources as they were, so that every request returns
\* after it what it returned before it; with a recognized tag NewContent
\* returns no error.
C9_UnknownKindFailsAlone ==
    [][(CanCall /\ res' # res /\ res'.iface \in IFaces) =>
        /\ res'.iface = "Invalid" =>
             /\ res'.status = "error"
             /\ res'.wrap = "nil"
             /\ res'.x = <<>>
             /\ tree' = tree
             /\ heap' = heap
             /\ \A k \in IFaces :
                  NewContent(tree', heap', pnodes', k)
                      = NewContent(tree, heap, pnodes, k)
        /\ res'.iface \in Recognized => res'.status # "error"]_vars

\* A request with the unrecognized tag has failed on a tree that holds a
\* source with an empty ip, which a url or file view would fill.
C9_Witness ==
    /\ res.status = "error"
    /\ res.iface = "Invalid"
    /\ \E n \in DOMAIN tree : \E i \in Range(tree[n].x) : heap[i].ip = ""
    /\ \E k \in Recognized : NewContent(tree, heap, pnodes, k).heap # heap

\* C10: on the tree of a successful ReadCfg, NewContent with a recognized
\* kind returns a view, whether or not the tree holds the node of the
\* request's scope.
C10_RecognizedKindReturnsView ==
    (res.status # "none" /\ res.iface \in Recognized) => res.status = "view"

-----------------------------------------------------------------------------
\* The context stack and the sources under construction.

\* C15: a close-brace line pops the stack only while it holds at least two
\* entries, and the current node becomes the new top; on a stack of one
\* entry or none it changes nothing.  A line that opens a block leaves a
\* non-empty stack, and no line empties a non-empty stack.
C15_CloseBracePopsAboveOne ==
    [][Scanned =>
         /\ line'.k = "rbrc" =>
              /\ IF Len(nodes) >= 2
                 THEN /\ nodes' = SubSeq(nodes, 1, Len(nodes) - 1)
                      /\ tnode' = Last(nodes')
                 ELSE /\ nodes' = nodes
                      /\ tnode' = tnode
              /\ pc' = "ReadCfg"
              /\ UNCHANGED <<tree, heap, o, decl>>
         /\ line'.k \in {"node", "leaf"} => Len(nodes') >= 1
         /\ Len(nodes) >= 1 => Len(nodes') >= 1]_vars

\* Two node blocks were opened and the third line, a close-brace, has left
\* one entry on the stack.
C15_Witness ==
    /\ pc = "ReadCfg"
    /\ line.k = "rbrc"
    /\ nlines = 3
    /\ Cardinality(DOMAIN tree) = 2
    /\ Len(nodes) = 1
    /\ tnode = nodes[1]

\* C16: after a node-open line, a dns-redirect-ip line scanned on a
\* non-empty stack sets the current node's ip when the top of the stack is
\* not `source`; with `source` on top it sets the ip of the source under
\* construction and leaves every node as it was.
C16_RedirectIPByStackTop ==
    [][(Scanned /\ line'.k = "ipbh" /\ sawNode /\ Len(nodes) > 0) =>
         IF Last(nodes) # src
         THEN /\ pc' = "ReadCfg"
              /\ InTree(tree', tnode)
              /\ tree'[tnode].ip = line'.v
         ELSE /\ tree' = tree
              /\ o # 0
              /\ heap'[o].ip = line'.v]_vars

\* C17: the type of a source that is in a node's sources list is not
\* changed by any later step.
C17_AppendedTypeIsFinal ==
    [][\A i \in 1..Len(heap) :
         (\E n \in DOMAIN tree : i \in Range(tree[n].x)) =>
             heap'[i].ltype = heap[i].ltype]_vars

\* C19: while the text is scanned, from the first node-open line on, the
\* current node is a key of the tree.
C19_CurrentNodeInTree ==
    (pc = "ReadCfg" /\ sawNode) => InTree(tree, tnode)

\* C20: a source object is appended to a sources list at most once.
C20_SourceAppendedOnce ==
    \A i \in 1..Len(heap) :
        Cardinality({j \in 1..Len(decl) : decl[j].id = i}) <= 1

-----------------------------------------------------------------------------
\* The rendering.

\* C14: the text Config.String returns has exactly one entry per key of the
\* tree, the entries in ascending order of the node names, and a second
\* rendering of the same tree returns the same text.
C14_RenderingSortedAndStable ==
    out.rendered # "none" =>
        /\ Len(out.s) = Cardinality(DOMAIN tree)
        /\ {out.s[i].pkey : i \in DOMAIN out.s} = DOMAIN tree
        /\ \A i, j \in DOMAIN out.s :
               i < j => StrLess(out.s[i].pkey, out.s[j].pkey)
        /\ out.rendered = "twice" => out.s = out.prev

\* A tree whose first source was declared under `hosts` and whose last
\* under `domains` has been rendered twice, `domains` before `hosts`.
C14_Witness ==
    /\ out.rendered = "twice"
    /\ Len(decl) >= 2
    /\ decl[1].node = hosts
    /\ decl[Len(decl)].node = domains
    /\ \E i \in DOMAIN out.s :
         /\ out.s[i].pkey = domains
         /\ i < Len(out.s)
         /\ out.s[i + 1].pkey = hosts
         /\ out.s[i].sources # <<>>

-----------------------------------------------------------------------------
\* The Entry Set (type list) and Config.excludes.  A key is kept as the
\* sequence of its dot-separated labels: "ads.example.com" is
\* <<"ads", "example", "com">>.  A list is a mutex pointer and a map; the
\* lists "a" and "b" have a mutex each, the list "e" is the one that a call
\* of excludes() returned.  Each goroutine runs one operation at a time, a
\* step being a lock operation or the access to the map it protects; a
\* panic of one goroutine ends the program.

\* The key of an exclude value of the texts, which has no dot.
KeyOf(v) == <<v>>

\* The text with which the tree of the Entry Set runs was read.
TextExcludes ==
    <<LNode(rootNode), LMlti("exclude", "x"), LNode(domains),
      LMlti("exclude", "x"), LMlti("exclude", "y")>>

ListTexts == {TextExample, TextExcludes}

\* The keys and the values of the calls.
SetKeys  == {<<"example", "com">>}
LookKeys == {<<"ads", "example", "com">>, <<"x">>}
ExcArgs  == {[called |-> TRUE, nil |-> TRUE, ns |-> <<>>],
             [called |-> TRUE, nil |-> FALSE, ns |-> <<domains>>],
             [called |-> TRUE, nil |-> FALSE, ns |-> <<hosts>>]}

\* ReadCfg on a whole text.
RECURSIVE ReadFrom(_, _)
ReadFrom(s, t) ==
    IF t = <<>> \/ s.panic THEN s ELSE ReadFrom(Scan(s, Head(t)), Tail(t))

ReadText(t) ==
    ReadFrom([tree |-> <<>>, heap |-> <<>>, tnode |-> "", nodes |-> <<>>,
              o |-> 0, decl |-> <<>>, panic |-> FALSE], t)

\* The state in which ReadCfg has returned for one of the texts and no
\* Entry Set operation has begun.
InitList ==
    /\ pnodes = <<domains, hosts>>
    /\ text = <<>>
    /\ pc = "returned"
    /\ rerr = "nil"
    /\ \E t \in ListTexts :
         /\ tree = ReadText(t).tree
         /\ heap = ReadText(t).heap
         /\ decl = ReadText(t).decl
    /\ tnode = ""
    /\ nodes = <<>>
    /\ o = 0
    /\ line = NoLine
    /\ nlines = 0
    /\ first = "node"
    /\ sawNode = TRUE
    /\ res = [status |-> "none"]
    /\ out = [rendered |-> "none", s |-> <<>>, prev |-> <<>>]
    /\ ListsIdle

\* getSubdomains: the suffixes of the key that have two labels or more.
getSubdomains(k) == {SubSeq(k, i, Len(k)) : i \in 1..(Len(k) - 1)}

\* updateEntry: a list with a map holding every string of data, and
\* with the RWMutex pointer left nil.
updateEntry(data) ==
    [made  |-> TRUE,
     mu    |-> 0,
     entry |-> [k \in {KeyOf(data[i]) : i \in DOMAIN data} |-> 0]]

\* Config.Nodes: the keys of the tree, sorted.
Nodes(t) == Sort(CHOOSE q \in RangeOrders(t) : TRUE)

RECURSIVE appendExc(_, _)
appendExc(t, ns) ==
    IF ns = <<>> THEN <<>> ELSE t[Head(ns)].exc \o appendExc(t, Tail(ns))

\* Config.excludes: the exclude lists of the named nodes, of all nodes
\* when no name is given, in one slice.  c.tree[node] is a nil pointer for
\* a name that is no key of the tree.
excludes(t, a) ==
    IF a.nil THEN [panic |-> FALSE, exc |-> appendExc(t, Nodes(t))]
    ELSE IF \E i \in DOMAIN a.ns : ~InTree(t, a.ns[i])
    THEN [panic |-> TRUE, exc |-> <<>>]
    ELSE [panic |-> FALSE, exc |-> appendExc(t, a.ns)]

\* l.entry[k] = v, and the loop of mergeList.
Put(e, k, v) == [x \in DOMAIN e \cup {k} |-> IF x = k THEN v ELSE e[x]]

Merge(a, b) ==
    [x \in DOMAIN a \cup DOMAIN b |-> IF x \in DOMAIN b THEN b[x] ELSE a[x]]

\* list.String: one line per key, the lines sorted.  Of the keys of the
\* calls and texts, "ads.example.com" < "example.com" < "x" < "y".
KeyRank(k) ==
    CASE k[1] = "ads" -> 1 [] k[1] = "example" -> 2 [] k[1] = "x" -> 3
      [] OTHER -> 4

EntryLines(e) ==
    LET n == Cardinality(DOMAIN e)
        q == CHOOSE f \in [1..n -> DOMAIN e] :
               \A i, j \in 1..n : i < j => KeyRank(f[i]) < KeyRank(f[j])
    IN  [i \in 1..n |-> <<q[i], e[q[i]]>>]

\* The calls a goroutine may make, and the state in which a call begins.
Calls ==
    {[op |-> "set", l |-> l, l2 |-> l, k |-> k] :
        l \in {"a", "b"}, k \in SetKeys}
    \cup {[op |-> "mergeList", l |-> l, l2 |-> l2, k |-> <<>>] :
        l \in {"a", "b"}, l2 \in {"a", "b"}}
    \cup {[op |-> f, l |-> l, l2 |-> l, k |-> k] :
        f \in {"keyExists", "subKeyExists"}, l \in {"a", "e"},
        k \in LookKeys}
    \cup {[op |-> "String", l |-> l, l2 |-> l, k |-> <<>>] :
        l \in {"a", "e"}}

Start(c, names) ==
    [op    |-> c.op,
     pc    |-> CASE c.op \in {"set", "mergeList"} -> "Lock"
                 [] c.op = "keyExists"             -> "RLock"
                 [] c.op = "subKeyExists"          -> "next"
                 [] c.op = "String"                -> "read",
     l     |-> c.l,
     l2    |-> c.l2,
     k     |-> c.k,
     cur   |-> IF c.op = "keyExists" THEN c.k ELSE <<>>,
     todo  |-> IF c.op = "subKeyExists" THEN getSubdomains(c.k) ELSE {},
     final |-> c.op = "keyExists",
     ret   |-> "none",
     str   |-> <<>>,
     names |-> names]

NoPanic == \A t \in Threads : th[t].pc # "panic"

Free(m) == mu[m].w = 0 /\ mu[m].r = {}

cfg == <<pnodes, text, pc, rerr, tree, heap, tnode, nodes, o, line, nlines,
         first, sawNode, decl, res, out>>

\* A goroutine calls an operation of a list.
Call(t) ==
    /\ NoPanic
    /\ th[t].pc \in {"idle", "done"}
    /\ \E c \in Calls :
         /\ lists[c.l].made
         /\ th' = [th EXCEPT ![t] = Start(c, th[t].names)]
    /\ UNCHANGED <<cfg, lists, mu>>

\* A goroutine calls c.excludes and keeps the list it returns.
ExcludesCall(t) ==
    /\ NoPanic
    /\ th[t].pc \in {"idle", "done"}
    /\ ~lists["e"].made
    /\ \E a \in ExcArgs :
         LET r == excludes(tree, a) IN
         IF r.panic
         THEN /\ th' = [th EXCEPT ![t] =
                          [Idle EXCEPT !.op = "excludes", !.pc = "panic",
                                       !.names = a]]
              /\ lists' = lists
         ELSE /\ th' = [th EXCEPT ![t] =
                          [Idle EXCEPT !.op = "excludes", !.pc = "done",
                                       !.l = "e", !.l2 = "e", !.names = a]]
              /\ lists' = [lists EXCEPT !["e"] = updateEntry(r.exc)]
    /\ UNCHANGED <<cfg, mu>>

\* subKeyExists: the next key of the range over getSubdomains(k), in any
\* order, and after the range the key itself.
NextKey(t) ==
    /\ NoPanic
    /\ th[t].pc = "next"
    /\ IF th[t].todo = {}
       THEN th' = [th EXCEPT ![t].cur = th[t].k, ![t].final = TRUE,
                             ![t].pc = "RLock"]
       ELSE \E x \in th[t].todo :
              th' = [th EXCEPT ![t].cur = x, ![t].todo = @ \ {x},
                               ![t].pc = "RLock"]
    /\ UNCHANGED <<cfg, lists, mu>>

\* keyExists: l.RLock(), a nil pointer dereference when l has no mutex.
RLock(t) ==
    LET m == lists[th[t].l].mu IN
    /\ NoPanic
    /\ th[t].pc = "RLock"
    /\ IF m = 0
       THEN /\ th' = [th EXCEPT ![t].pc = "panic"]
            /\ mu' = mu
       ELSE /\ mu[m].w = 0
            /\ mu' = [mu EXCEPT ![m].r = @ \cup {t}]
            /\ th' = [th EXCEPT ![t].pc = "read"]
    /\ UNCHANGED <<cfg, lists>>

\* The read of the map: l.entry[k] in keyExists, the range in String.
Read(t) ==
    LET e == lists[th[t].l].entry IN
    /\ NoPanic
    /\ th[t].pc = "read"
    /\ IF th[t].op = "String"
       THEN th' = [th EXCEPT ![t].str = EntryLines(e), ![t].pc = "done"]
       ELSE th' = [th EXCEPT
                     ![t].ret = IF th[t].cur \in DOMAIN e
                                THEN "true" ELSE "false",
                     ![t].pc = "RUnlock"]
    /\ UNCHANGED <<cfg, lists, mu>>

\* keyExists: the deferred l.RUnlock(); subKeyExists returns true on the
\* first key found and the result for the key itself otherwise.
RUnlock(t) ==
    LET m == lists[th[t].l].mu IN
    /\ NoPanic
    /\ th[t].pc = "RUnlock"
    /\ mu' = [mu EXCEPT ![m].r = @ \ {t}]
    /\ th' = [th EXCEPT ![t].pc =
                IF th[t].ret = "true" \/ th[t].final THEN "done" ELSE "next"]
    /\ UNCHANGED <<cfg, lists>>

\* set: l.Lock(); mergeList: a.Lock().
Lock(t) ==
    LET m == lists[th[t].l].mu IN
    /\ NoPanic
    /\ th[t].pc = "Lock"
    /\ IF m = 0
       THEN /\ th' = [th EXCEPT ![t].pc = "panic"]
            /\ mu' = mu
       ELSE /\ Free(m)
            /\ mu' = [mu EXCEPT ![m].w = t]
            /\ th' = [th EXCEPT ![t].pc =
                        IF th[t].op = "set" THEN "write" ELSE "Lock2"]
    /\ UNCHANGED <<cfg, lists>>

\* mergeList: b.Lock().
Lock2(t) ==
    LET m == lists[th[t].l2].mu IN
    /\ NoPanic
    /\ th[t].pc = "Lock2"
    /\ IF m = 0
       THEN /\ th' = [th EXCEPT ![t].pc = "panic"]
            /\ mu' = mu
       ELSE /\ Free(m)
            /\ mu' = [mu EXCEPT ![m].w = t]
            /\ th' = [th EXCEPT ![t].pc = "write"]
    /\ UNCHANGED <<cfg, lists>>

\* The write of the map: l.entry[k] = v in set, the loop in mergeList.
Write(t) ==
    /\ NoPanic
    /\ th[t].pc = "write"
    /\ IF th[t].op = "set"
       THEN /\ lists' = [lists EXCEPT ![th[t].l].entry = Put(@, th[t].k, 1)]
            /\ th' = [th EXCEPT ![t].pc = "Unlock"]
       ELSE /\ lists' = [lists EXCEPT ![th[t].l].entry =
                           Merge(@, lists[th[t].l2].entry)]
            /\ th' = [th EXCEPT ![t].pc = "Unlock2"]
    /\ UNCHANGED <<cfg, mu>>

\* mergeList: the deferred b.Unlock(), which runs first.
Unlock2(t) ==
    LET m == lists[th[t].l2].mu IN
    /\ NoPanic
    /\ th[t].pc = "Unlock2"
    /\ mu' = [mu EXCEPT ![m].w = 0]
    /\ th' = [th EXCEPT ![t].pc = "Unlock"]
    /\ UNCHANGED <<cfg, lists>>

\* set: l.Unlock(); mergeList: the deferred a.Unlock().
Unlock(t) ==
    LET m == lists[th[t].l].mu IN
    /\ NoPanic
    /\ th[t].pc = "Unlock"
    /\ mu' = [mu EXCEPT ![m].w = 0]
    /\ th' = [th EXCEPT ![t].pc = "done"]
    /\ UNCHANGED <<cfg, lists>>

NextList ==
    \E t \in Threads :
        \/ Call(t)
        \/ ExcludesCall(t)
        \/ NextKey(t)
        \/ RLock(t)
        \/ Read(t)
        \/ RUnlock(t)
        \/ Lock(t)
        \/ Lock2(t)
        \/ Write(t)
        \/ Unlock2(t)
        \/ Unlock(t)

SpecList == InitList /\ [][NextList]_vars

-----------------------------------------------------------------------------
\* The Entry Set operations.

\* The members of list n that decide subKeyExists(k): the key and its
\* suffixes of two labels or more.
Deciding(k) == getSubdomains(k) \cup {k}

HasSuffix(n, k) == \E x \in Deciding(k) : x \in DOMAIN lists[n].entry

\* The strings of the exclude lists that the excludes call of the run
\* named.
Flattened ==
    UNION {{KeyOf(x) : x \in Range(excludes(tree, th[t].names).exc)} :
              t \in {u \in Threads : th[u].names.called}}

\* C11: a subKeyExists call returns, and it returns true exactly when the
\* list holds the key or one of its parent suffixes (no key is ever
\* removed, so a true result stays right; a false result is compared with
\* the list while no other goroutine has made a call).
C11_SubKeyExistsIsSuffixMatch ==
    \A t \in Threads :
        (th[t].op = "subKeyExists" /\ th[t].pc \in {"done", "panic"}) =>
            /\ th[t].pc = "done"
            /\ th[t].ret = "true" => HasSuffix(th[t].l, th[t].k)
            /\ (th[t].ret = "false"
                /\ \A u \in Threads \ {t} : th[u].op = "none")
                   => ~HasSuffix(th[t].l, th[t].k)

\* C12: a keyExists call on the list returned by excludes returns, and it
\* returns true exactly for the strings of the flattened exclude lists.
C12_ExcludesAnswersMembership ==
    \A t \in Threads :
        (th[t].op = "keyExists" /\ th[t].l = "e"
         /\ th[t].pc \in {"done", "panic"}) =>
            /\ th[t].pc = "done"
            /\ th[t].ret = "true" <=> th[t].k \in Flattened

\* C13: no goroutine is at a write of a list's map while another is at a
\* read or a write of the same map.
AtRead(t, n) ==
    \/ th[t].pc = "read" /\ th[t].l = n
    \/ th[t].pc = "write" /\ th[t].op = "mergeList" /\ th[t].l2 = n

AtWrite(t, n) == th[t].pc = "write" /\ th[t].l = n

C13_NoReadOverlapsWrite ==
    \A t, u \in Threads : \A n \in DOMAIN lists :
        (t # u /\ AtWrite(t, n)) => ~(AtRead(u, n) \/ AtWrite(u, n))

\* C18: no mergeList call is blocked for ever: there is no set of
\* goroutines, one of them in mergeList, each waiting for a mutex that
\* only goroutines of the set hold.
Waits(t) ==
    CASE th[t].pc \in {"Lock", "RLock"} -> lists[th[t].l].mu
      [] th[t].pc = "Lock2"             -> lists[th[t].l2].mu
      [] OTHER                          -> 0

Holders(m) == ({mu[m].w} \ {0}) \cup mu[m].r

Blocked(t) ==
    /\ Waits(t) # 0
    /\ IF th[t].pc = "RLock" THEN mu[Waits(t)].w # 0 ELSE ~Free(Waits(t))

C18_MergeListTerminates ==
    \A D \in SUBSET Threads :
        ~ /\ \E t \in D : th[t].op = "mergeList"
          /\ \A t \in D : Blocked(t) /\ Holders(Waits(t)) \subseteq D

====
